---- MODULE Spec2Model ----
(***************************************************************************)
(* A model of the teaching programs of go-from-python:                     *)
(*   - main of go_3_goroutines.go: the boolChannel hand-off, the           *)
(*     non-blocking send loop over messageChan with its printer goroutine, *)
(*     and the stock pipeline (2 spammers, 4 emoji workers, the done       *)
(*     channel, the timeout ticker and main's wait loop);                  *)
(*   - SenderA / SenderB of go_4_structs_interfaces.go (and the copy of    *)
(*     that file at the end of unnamed/part_000).                          *)
(***************************************************************************)
EXTENDS Integers, Sequences, FiniteSets, TLC

(***************************************************************************)
(* Bounds of the model.  The program's stockTickerChan holds 100 symbols   *)
(* and maxEmojis is 100000; both are scaled down, the code's comparisons   *)
(* against them are kept as they are.                                      *)
(***************************************************************************)
StockChanCap == 1

MaxEmojis == 1

MaxCalls == 4

(***************************************************************************)
(* Program constants.                                                      *)
(***************************************************************************)
BoolChanCap == 1

MessageChanCap == 3

workers == 4

TickerChanCap == 1

Messages == <<"foo", "bar", "bazz", "wham", "whack", "bang", "pop", "zow">>

stockSymbols == <<"AAPL", "GOOG", "FB", "AMZN">>

Workers == 1..workers

Spammers == 1..2

\* the ticker argument of the four "go stockEmojiWorker(...)" statements
WorkerTicker == <<"AAPL", "GOOG", "FB", "AMZN">>

TimeoutMessage == "\n\ngot a timeout message"

AllWorkersMessage == "\n\nheard from all the workers"

VARIABLES
    mainPC,           \* where main of go_3_goroutines.go is
    boolChannel,      \* make(chan bool, 1)
    boolSenderPC,     \* the goroutine of lines 39-46
    messageChan,      \* make(chan string, 3)
    msgIdx,           \* number of range iterations of the send loop done
    enqueued,         \* messages the select's send case put on messageChan
    dropped,          \* messages reported by the default case
    printed,          \* messages printed by the printer goroutine
    printerPC,        \* the printer goroutine: "loop" or "finished"
    stockTickerChan,  \* make(chan string, 100)
    workerDoneChan,   \* make(chan bool, workers)
    tickerChan,       \* ticker.C
    tickerRunning,    \* the ticker is started and not stopped
    tickerStops,      \* number of times ticker.Stop() ran
    workerPC,         \* per worker: "unstarted", "range", "send", "exited"
    emojiCount,       \* per worker: its local emojiCount
    iconsPrinted,     \* per worker: number of fmt.Print(icon) calls
    doneSent,         \* per worker: number of sends on doneChan
    spammerPC,        \* per spammer: "unstarted", "pick", "send"
    randomStock,      \* per spammer: its local randomStock
    exitMessage,      \* main's local exitMessage
    deferredArg,      \* the argument value bound by "defer fmt.Println(...)"
    deferOut,         \* what the deferred fmt.Println wrote
    finishedWorkers,  \* main's local finishedWorkers
    tickReceived,     \* the select's tickerChan case was taken
    senderA,          \* package-level senderA
    senderB,          \* package-level senderB
    sendLog,          \* one entry per Send call: what the call saw and printed
    nameToAge,        \* the map nameToAge of part_000
    lastRead,         \* the latest two-value read of nameToAge, or NoRead
    cleanupPC,        \* where main of part_001 is
    deferred,         \* the calls main of part_001 has deferred, oldest first
    cleanupOut,       \* what main of part_001 has printed and logged
    firstUser,        \* main's local firstUser (part_001)
    returnedUser,     \* the value updateNameAndCopy returned, before it is assigned
    firstPerson,      \* main's local firstPerson (part_001)
    userName,         \* the argument of updateNameAndCopy
    personName        \* the argument of updateMyName

chanVars == <<boolChannel, boolSenderPC, messageChan, msgIdx, enqueued, dropped, printed,
              printerPC>>

stockVars == <<stockTickerChan, workerDoneChan, tickerChan, tickerRunning, tickerStops,
               workerPC, emojiCount, iconsPrinted, doneSent, spammerPC, randomStock,
               exitMessage, deferredArg, deferOut, finishedWorkers, tickReceived>>

senderVars == <<senderA, senderB, sendLog>>

mapVars == <<nameToAge, lastRead>>

cleanupVars == <<cleanupPC, deferred, cleanupOut, firstUser, returnedUser, firstPerson,
                 userName, personName>>

exampleVars == <<mapVars, cleanupVars>>

vars == <<mainPC, chanVars, stockVars, senderVars, exampleVars>>

NoOutput == "<nothing printed>"

(***************************************************************************)
(* Buffered channels: a send needs room, a receive needs an item, items    *)
(* leave in the order they entered.                                        *)
(***************************************************************************)
CanSend(ch, cap) == Len(ch) < cap

ChanSend(ch, v) == Append(ch, v)

CanRecv(ch) == Len(ch) > 0

\* a channel that hands out its newest item first
ChanRecvNewest(ch) == ch[Len(ch)]

ChanRecvValue(ch) == Head(ch)

ChanRecvRest(ch) == Tail(ch)

InitChan ==
    /\ boolChannel = <<>>
    /\ boolSenderPC = "send"
    /\ messageChan = <<>>
    /\ msgIdx = 0
    /\ enqueued = <<>>
    /\ dropped = <<>>
    /\ printed = <<>>
    /\ printerPC = "loop"

InitStockVars ==
    /\ stockTickerChan = <<>>
    /\ workerDoneChan = <<>>
    /\ tickerChan = <<>>
    /\ tickerRunning = FALSE
    /\ tickerStops = 0
    /\ workerPC = [w \in Workers |-> "unstarted"]
    /\ emojiCount = [w \in Workers |-> 0]
    /\ iconsPrinted = [w \in Workers |-> 0]
    /\ doneSent = [w \in Workers |-> 0]
    /\ spammerPC = [s \in Spammers |-> "unstarted"]
    /\ randomStock = [s \in Spammers |-> ""]
    /\ exitMessage = ""
    /\ deferredArg = NoOutput
    /\ deferOut = NoOutput
    /\ finishedWorkers = 0
    /\ tickReceived = FALSE

InitSenders ==
    /\ senderA = [FirstName |-> "A", MessageCount |-> 0]
    /\ senderB = [FirstName |-> "B", MessageCount |-> 0]
    /\ sendLog = <<>>

NoRead == [key |-> "", value |-> 0, keyExists |-> FALSE, read |-> FALSE]

\* part_000, lines 359-362: nameToAge := map[string]int{"Bob": 42, "Alice": 33}
InitMap ==
    /\ nameToAge = [k \in {"Bob", "Alice"} |-> IF k = "Bob" THEN 42 ELSE 33]
    /\ lastRead = NoRead

\* the start of main of part_001; u and p are the names it passes to
\* updateNameAndCopy and to updateMyName
InitCleanupWith(u, p) ==
    /\ cleanupPC = "defers"
    /\ deferred = <<>>
    /\ cleanupOut = <<>>
    /\ firstUser = [firstName |-> ""]
    /\ returnedUser = [firstName |-> ""]
    /\ firstPerson = [firstName |-> ""]
    /\ userName = u
    /\ personName = p

\* lines 136 and 142: the names the program uses
InitCleanup == InitCleanupWith("alice", "jordan")

\* the start of main of go_3_goroutines.go
Init ==
    /\ mainPC = "recvBool"
    /\ InitChan
    /\ InitStockVars
    /\ InitSenders
    /\ InitMap
    /\ InitCleanup

(***************************************************************************)
(* go_3_goroutines.go, lines 37-51: the boolChannel hand-off.              *)
(***************************************************************************)
BoolSender ==
    /\ boolSenderPC = "send"
    /\ CanSend(boolChannel, BoolChanCap)
    /\ boolChannel' = ChanSend(boolChannel, TRUE)
    /\ boolSenderPC' = "done"
    /\ UNCHANGED <<mainPC, messageChan, msgIdx, enqueued, dropped, printed, printerPC, stockVars, senderVars, exampleVars>>

MainRecvBool ==
    /\ mainPC = "recvBool"
    /\ CanRecv(boolChannel)
    /\ boolChannel' = ChanRecvRest(boolChannel)
    /\ mainPC' = "sendLoop"
    /\ UNCHANGED <<boolSenderPC, messageChan, msgIdx, enqueued, dropped, printed, printerPC, stockVars, senderVars, exampleVars>>

(***************************************************************************)
(* go_3_goroutines.go, lines 109-139: messageChan, its printer goroutine   *)
(* (started by the go statement of line 110, which main reaches after the  *)
(* boolChannel receive) and main's select-with-default send loop.          *)
(***************************************************************************)
PrinterStarted == mainPC \notin {"recvBool"}

\* line 146: "// close(messageChan)" is commented out, nothing closes it
MessageChanClosed == FALSE

\* one pass of the printer's "for { select { case message, ok := <-messageChan" }}":
\* it blocks while the channel is empty and open, prints what it receives,
\* and returns when the receive reports a closed channel (ok false)
PrinterRecv ==
    /\ PrinterStarted
    /\ mainPC # "returned"
    /\ printerPC = "loop"
    /\ CanRecv(messageChan) \/ MessageChanClosed
    /\ IF CanRecv(messageChan)
          THEN /\ printed' = Append(printed, ChanRecvValue(messageChan))
               /\ messageChan' = ChanRecvRest(messageChan)
               /\ UNCHANGED printerPC
          ELSE /\ printerPC' = "finished"
               /\ UNCHANGED <<printed, messageChan>>
    /\ UNCHANGED <<mainPC, boolChannel, boolSenderPC, msgIdx, enqueued, dropped, stockVars, senderVars, exampleVars>>

\* the send loop with a plain send in place of the select with default
MainTrySendBlocking ==
    /\ mainPC = "sendLoop"
    /\ msgIdx < Len(Messages)
    /\ CanSend(messageChan, MessageChanCap)
    /\ messageChan' = ChanSend(messageChan, Messages[msgIdx + 1])
    /\ enqueued' = Append(enqueued, Messages[msgIdx + 1])
    /\ msgIdx' = msgIdx + 1
    /\ mainPC' = IF msgIdx + 1 = Len(Messages) THEN "setup" ELSE "sendLoop"
    /\ UNCHANGED <<boolChannel, boolSenderPC, dropped, printed, printerPC, stockVars, senderVars, exampleVars>>

\* the send loop with the drop report after the select instead of in its
\* default case: a message that was sent is reported dropped as well
MainTrySendReportAlways ==
    /\ mainPC = "sendLoop"
    /\ msgIdx < Len(Messages)
    /\ LET message == Messages[msgIdx + 1] IN
         /\ IF CanSend(messageChan, MessageChanCap)
               THEN /\ messageChan' = ChanSend(messageChan, message)
                    /\ enqueued' = Append(enqueued, message)
               ELSE UNCHANGED <<messageChan, enqueued>>
         /\ dropped' = Append(dropped, message)
    /\ msgIdx' = msgIdx + 1
    /\ mainPC' = IF msgIdx + 1 = Len(Messages) THEN "setup" ELSE "sendLoop"
    /\ UNCHANGED <<boolChannel, boolSenderPC, printed, printerPC, stockVars, senderVars, exampleVars>>

\* one iteration of the range loop: the select of lines 131-138
MainTrySend ==
    /\ mainPC = "sendLoop"
    /\ msgIdx < Len(Messages)
    /\ LET message == Messages[msgIdx + 1] IN
         IF CanSend(messageChan, MessageChanCap)
            THEN /\ messageChan' = ChanSend(messageChan, message)
                 /\ enqueued' = Append(enqueued, message)
                 /\ UNCHANGED dropped
            ELSE /\ dropped' = Append(dropped, message)
                 /\ UNCHANGED <<messageChan, enqueued>>
    /\ msgIdx' = msgIdx + 1
    /\ mainPC' = IF msgIdx + 1 = Len(Messages) THEN "setup" ELSE "sendLoop"
    /\ UNCHANGED <<boolChannel, boolSenderPC, printed, printerPC, stockVars, senderVars, exampleVars>>

NextChan ==
    \/ BoolSender
    \/ MainRecvBool
    \/ PrinterRecv
    \/ MainTrySend

SpecChan == Init /\ [][NextChan]_vars

\* fair scheduling of main, of the boolChannel sender and of the printer
FairSpecChan ==
    /\ SpecChan
    /\ WF_vars(MainRecvBool \/ MainTrySend)
    /\ WF_vars(BoolSender)
    /\ WF_vars(PrinterRecv)

(***************************************************************************)
(* go_3_goroutines.go, lines 162-202: main creates the channels, starts    *)
(* the ticker, the 4 workers and the 2 spammers, and binds the two defers. *)
(* All of it is local to main; the goroutines only become schedulable.     *)
(***************************************************************************)
\* "defer fmt.Println(exitMessage)": the argument is evaluated when the
\* defer statement executes, the call runs when main returns
DeferBind(valueAtDefer) == valueAtDefer

MainSetup ==
    /\ mainPC = "setup"
    /\ mainPC' = "wait"
    /\ stockTickerChan' = <<>>
    /\ workerDoneChan' = <<>>
    /\ tickerChan' = <<>>
    /\ tickerRunning' = TRUE
    /\ workerPC' = [w \in Workers |-> "range"]
    /\ emojiCount' = [w \in Workers |-> 0]
    /\ spammerPC' = [s \in Spammers |-> "pick"]
    /\ exitMessage' = ""
    /\ deferredArg' = DeferBind(exitMessage')
    /\ finishedWorkers' = 0
    /\ UNCHANGED <<chanVars, tickerStops, iconsPrinted, doneSent, randomStock,
                   deferOut, tickReceived, senderVars, exampleVars>>

\* the program runs until main returns
Running == mainPC # "returned"

\* the runtime's ticker: a tick is put on ticker.C unless the buffer of
\* one is still occupied, in which case the tick is dropped
TickerFire ==
    /\ Running
    /\ tickerRunning
    /\ tickerChan' = IF CanSend(tickerChan, TickerChanCap)
                        THEN ChanSend(tickerChan, "tick")
                        ELSE tickerChan
    /\ UNCHANGED <<mainPC, chanVars, stockTickerChan, workerDoneChan, tickerRunning, tickerStops,
                   workerPC, emojiCount, iconsPrinted, doneSent, spammerPC, randomStock,
                   exitMessage, deferredArg, deferOut, finishedWorkers, tickReceived, senderVars, exampleVars>>

(***************************************************************************)
(* stockSymbolSpammer, lines 232-242.                                      *)
(***************************************************************************)
\* line 237: randomStock := stockSymbols[rand.Intn(len(stockSymbols))]
SpammerPick(s) ==
    /\ Running
    /\ spammerPC[s] = "pick"
    /\ \E i \in 1..Len(stockSymbols) :
          randomStock' = [randomStock EXCEPT ![s] = stockSymbols[i]]
    /\ spammerPC' = [spammerPC EXCEPT ![s] = "send"]
    /\ UNCHANGED <<mainPC, chanVars, stockTickerChan, workerDoneChan, tickerChan, tickerRunning,
                   tickerStops, workerPC, emojiCount, iconsPrinted, doneSent,
                   exitMessage, deferredArg, deferOut, finishedWorkers, tickReceived, senderVars, exampleVars>>

\* a spammer that does not wait for room in the channel
SpammerSendNoWait(s) ==
    /\ Running
    /\ spammerPC[s] = "send"
    /\ stockTickerChan' = ChanSend(stockTickerChan, randomStock[s])
    /\ spammerPC' = [spammerPC EXCEPT ![s] = "pick"]
    /\ randomStock' = [randomStock EXCEPT ![s] = ""]
    /\ UNCHANGED <<mainPC, chanVars, workerDoneChan, tickerChan, tickerRunning,
                   tickerStops, workerPC, emojiCount, iconsPrinted, doneSent,
                   exitMessage, deferredArg, deferOut, finishedWorkers, tickReceived, senderVars, exampleVars>>

\* line 240: stockChan <- randomStock, a plain (blocking) send
SpammerSend(s) ==
    /\ Running
    /\ spammerPC[s] = "send"
    /\ CanSend(stockTickerChan, StockChanCap)
    /\ stockTickerChan' = ChanSend(stockTickerChan, randomStock[s])
    /\ spammerPC' = [spammerPC EXCEPT ![s] = "pick"]
    /\ randomStock' = [randomStock EXCEPT ![s] = ""]   \* scoped to the iteration
    /\ UNCHANGED <<mainPC, chanVars, workerDoneChan, tickerChan, tickerRunning,
                   tickerStops, workerPC, emojiCount, iconsPrinted, doneSent,
                   exitMessage, deferredArg, deferOut, finishedWorkers, tickReceived, senderVars, exampleVars>>

(***************************************************************************)
(* stockEmojiWorker, lines 245-262.                                        *)
(***************************************************************************)
\* line 256: if emojiCount > maxEmojis { break }
CapReached(count, maxEmojis) == count > maxEmojis

\* a worker that forgets the comparison with its ticker and counts
\* whatever it receives
WorkerRecvCountAll(w) ==
    /\ Running
    /\ workerPC[w] = "range"
    /\ CanRecv(stockTickerChan)
    /\ LET count == emojiCount[w] + 1
       IN /\ stockTickerChan' = ChanRecvRest(stockTickerChan)
          /\ emojiCount' = [emojiCount EXCEPT ![w] = count]
          /\ iconsPrinted' = [iconsPrinted EXCEPT ![w] = @ + 1]
          /\ workerPC' = [workerPC EXCEPT ![w] =
                             IF CapReached(count, MaxEmojis) THEN "send" ELSE "range"]
    /\ UNCHANGED <<mainPC, chanVars, workerDoneChan, tickerChan, tickerRunning, tickerStops,
                   doneSent, spammerPC, randomStock,
                   exitMessage, deferredArg, deferOut, finishedWorkers, tickReceived, senderVars, exampleVars>>

\* one iteration of "for stockSymbol := range stockChan" (lines 249-259)
WorkerRecv(w) ==
    /\ Running
    /\ workerPC[w] = "range"
    /\ CanRecv(stockTickerChan)
    /\ LET stockSymbol == ChanRecvValue(stockTickerChan)
           match == stockSymbol = WorkerTicker[w]
           count == IF match THEN emojiCount[w] + 1 ELSE emojiCount[w]
       IN /\ stockTickerChan' = ChanRecvRest(stockTickerChan)
          /\ emojiCount' = [emojiCount EXCEPT ![w] = count]
          /\ iconsPrinted' = [iconsPrinted EXCEPT ![w] = IF match THEN @ + 1 ELSE @]
          /\ workerPC' = [workerPC EXCEPT ![w] =
                             IF CapReached(count, MaxEmojis) THEN "send" ELSE "range"]
    /\ UNCHANGED <<mainPC, chanVars, workerDoneChan, tickerChan, tickerRunning, tickerStops,
                   doneSent, spammerPC, randomStock,
                   exitMessage, deferredArg, deferOut, finishedWorkers, tickReceived, senderVars, exampleVars>>

\* a done channel made like boolChannel, with room for one message only
DoneChanCapOne == BoolChanCap

\* line 168: workerDoneChan := make(chan bool, workers)
DoneChanCap == workers

\* a worker whose send sits inside its loop, so it reports again
WorkerSendDoneAgain(w) ==
    /\ Running
    /\ workerPC[w] = "send"
    /\ CanSend(workerDoneChan, DoneChanCap)
    /\ workerDoneChan' = ChanSend(workerDoneChan, TRUE)
    /\ doneSent' = [doneSent EXCEPT ![w] = @ + 1]
    /\ UNCHANGED <<mainPC, chanVars, stockTickerChan, tickerChan, tickerRunning, tickerStops,
                   workerPC, emojiCount, iconsPrinted, spammerPC, randomStock,
                   exitMessage, deferredArg, deferOut, finishedWorkers, tickReceived, senderVars, exampleVars>>

\* line 261: doneChan <- true, then the goroutine ends
WorkerSendDone(w) ==
    /\ Running
    /\ workerPC[w] = "send"
    /\ CanSend(workerDoneChan, DoneChanCap)
    /\ workerDoneChan' = ChanSend(workerDoneChan, TRUE)
    /\ doneSent' = [doneSent EXCEPT ![w] = @ + 1]
    /\ workerPC' = [workerPC EXCEPT ![w] = "exited"]
    /\ UNCHANGED <<mainPC, chanVars, stockTickerChan, tickerChan, tickerRunning, tickerStops,
                   emojiCount, iconsPrinted, spammerPC, randomStock,
                   exitMessage, deferredArg, deferOut, finishedWorkers, tickReceived, senderVars, exampleVars>>

(***************************************************************************)
(* main's wait loop, lines 203-224.  A return runs the deferred calls, in  *)
(* reverse order: fmt.Println with its bound argument, then ticker.Stop(). *)
(***************************************************************************)
\* a wait loop that compares against the count before the increment
AllWorkersDoneOffByOne(n) == n = workers - 1

\* line 218: if finishedWorkers == workers
AllWorkersDone(n) == n = workers

\* a ticker case that leaves the select with "break" instead of "return":
\* the for loop goes on
MainSelectTickerBreak ==
    /\ mainPC = "wait"
    /\ CanRecv(tickerChan)
    /\ tickerChan' = ChanRecvRest(tickerChan)
    /\ tickReceived' = TRUE
    /\ exitMessage' = TimeoutMessage
    /\ UNCHANGED <<mainPC, chanVars, stockTickerChan, workerDoneChan, tickerRunning, tickerStops,
                   workerPC, emojiCount, iconsPrinted, doneSent, spammerPC, randomStock,
                   deferredArg, deferOut, finishedWorkers, senderVars, exampleVars>>

\* case <-tickerChan (lines 211-215)
MainSelectTicker ==
    /\ mainPC = "wait"
    /\ CanRecv(tickerChan)
    /\ tickerChan' = ChanRecvRest(tickerChan)
    /\ tickReceived' = TRUE
    /\ exitMessage' = TimeoutMessage
    /\ mainPC' = "returned"
    /\ deferOut' = deferredArg
    /\ tickerRunning' = FALSE
    /\ tickerStops' = tickerStops + 1
    /\ UNCHANGED <<chanVars, stockTickerChan, workerDoneChan, workerPC, emojiCount,
                   iconsPrinted, doneSent, spammerPC, randomStock, deferredArg,
                   finishedWorkers, senderVars, exampleVars>>

\* a done case that ends the program with os.Exit instead of "return":
\* no deferred call runs
MainSelectDoneExit ==
    /\ mainPC = "wait"
    /\ CanRecv(workerDoneChan)
    /\ workerDoneChan' = ChanRecvRest(workerDoneChan)
    /\ finishedWorkers' = finishedWorkers + 1
    /\ IF AllWorkersDone(finishedWorkers')
          THEN /\ exitMessage' = AllWorkersMessage
               /\ mainPC' = "returned"
          ELSE UNCHANGED <<exitMessage, mainPC>>
    /\ UNCHANGED <<chanVars, stockTickerChan, tickerChan, workerPC, emojiCount,
                   iconsPrinted, doneSent, spammerPC, randomStock, deferredArg,
                   deferOut, tickerRunning, tickerStops, tickReceived, senderVars, exampleVars>>

\* case <-workerDoneChan (lines 216-222)
MainSelectDone ==
    /\ mainPC = "wait"
    /\ CanRecv(workerDoneChan)
    /\ workerDoneChan' = ChanRecvRest(workerDoneChan)
    /\ finishedWorkers' = finishedWorkers + 1
    /\ IF AllWorkersDone(finishedWorkers')
          THEN /\ exitMessage' = AllWorkersMessage
               /\ mainPC' = "returned"
               /\ deferOut' = deferredArg
               /\ tickerRunning' = FALSE
               /\ tickerStops' = tickerStops + 1
          ELSE UNCHANGED <<exitMessage, mainPC, deferOut, tickerRunning, tickerStops>>
    /\ UNCHANGED <<chanVars, stockTickerChan, tickerChan, workerPC, emojiCount,
                   iconsPrinted, doneSent, spammerPC, randomStock, deferredArg,
                   tickReceived, senderVars, exampleVars>>

NextStock ==
    \/ MainSetup
    \/ TickerFire
    \/ \E s \in Spammers : SpammerPick(s)
    \/ \E s \in Spammers : SpammerSend(s)
    \/ \E w \in Workers : WorkerRecv(w)
    \/ \E w \in Workers : WorkerSendDone(w)
    \/ MainSelectTicker
    \/ MainSelectDone

\* the whole of main of go_3_goroutines.go
NextProgram == NextChan \/ NextStock

SpecProgram == Init /\ [][NextProgram]_vars

(***************************************************************************)
(* The stock pipeline on its own: it starts where main reaches line 162    *)
(* in the run in which the printer goroutine kept up with the send loop    *)
(* (every message enqueued and printed, messageChan empty), a state        *)
(* SpecChan reaches.                                                       *)
(***************************************************************************)
InitStock ==
    /\ mainPC = "setup"
    /\ boolChannel = <<>>
    /\ boolSenderPC = "done"
    /\ messageChan = <<>>
    /\ msgIdx = Len(Messages)
    /\ enqueued = Messages
    /\ dropped = <<>>
    /\ printed = Messages
    /\ printerPC = "loop"
    /\ InitStockVars
    /\ InitSenders
    /\ InitMap
    /\ InitCleanup

SpecStock == InitStock /\ [][NextStock]_vars

(***************************************************************************)
(* Fair scheduling: main is scheduled whenever it can take a step, and     *)
(* time passes, so the running ticker keeps firing.                        *)
(***************************************************************************)
MainStep == MainSetup \/ MainSelectTicker \/ MainSelectDone

FairSpecStock == SpecStock /\ WF_vars(MainStep) /\ WF_vars(TickerFire)

\* C5: under fair scheduling main eventually returns, and once the ticker
\* has delivered a value the wait loop returns, whatever the workers and
\* the spammers do and whether or not done messages are pending.
MainEventuallyReturns ==
    /\ <>(mainPC = "returned")
    /\ (CanRecv(tickerChan) ~> mainPC = "returned")

(***************************************************************************)
(* go_4_structs_interfaces.go (and its copy at the end of part_000):       *)
(* SenderA with a value receiver, SenderB with a pointer receiver, and     *)
(* SendEmail, which calls Send through SenderInterface.                    *)
(*                                                                         *)
(* A Send operator takes the receiver's variable and returns what the      *)
(* variable holds after the call ("stored") and what the call saw and      *)
(* printed ("out").                                                        *)
(***************************************************************************)
SendMessages == {"message one", "message two", "message three", "message four"}

\* SenderA.Send with a pointer receiver: the increment lands in the variable
SenderA_SendPointer(receiver, message) ==
    LET s == [receiver EXCEPT !.MessageCount = @ + 1]
    IN [stored |-> s, local |-> s,
        out |-> [sender |-> "A", count |-> s.MessageCount,
                 name |-> s.FirstName, message |-> message]]

\* func (s SenderA) Send(message string) of go_4_structs_interfaces.go:
\* s is a copy of the variable the method is called on
SenderA_Send(receiver, message) ==
    LET s == [receiver EXCEPT !.MessageCount = @ + 1]
    IN [stored |-> receiver, local |-> s,
        out |-> [sender |-> "A", count |-> s.MessageCount,
                 name |-> s.FirstName, message |-> message]]

\* func (s SenderA) Send(message string) of part_000: it also assigns
\* s.FirstName after printing
SenderA_Send_part000(receiver, message) ==
    LET s == [receiver EXCEPT !.MessageCount = @ + 1]
        sAfter == [s EXCEPT !.FirstName = "what will happen????"]
    IN [stored |-> receiver, local |-> sAfter,
        out |-> [sender |-> "A", count |-> s.MessageCount,
                 name |-> s.FirstName, message |-> message]]

\* SenderB.Send with a value receiver: the increment is lost
SenderB_SendValue(receiver, message) ==
    LET s == [receiver EXCEPT !.MessageCount = @ + 1]
    IN [stored |-> receiver, local |-> s,
        out |-> [sender |-> "B", count |-> s.MessageCount,
                 name |-> s.FirstName, message |-> message]]

\* func (s *SenderB) Send(message string): s points at the variable
SenderB_Send(receiver, message) ==
    LET s == [receiver EXCEPT !.MessageCount = @ + 1]
    IN [stored |-> s, local |-> s,
        out |-> [sender |-> "B", count |-> s.MessageCount,
                 name |-> s.FirstName, message |-> message]]

\* senderA.Send(message), as in runSenders
CallSendA(message) ==
    /\ Len(sendLog) < MaxCalls
    /\ \E r \in {SenderA_Send(senderA, message), SenderA_Send_part000(senderA, message)} :
          /\ senderA' = r.stored
          /\ sendLog' = Append(sendLog, r.out)
    /\ UNCHANGED <<mainPC, chanVars, stockVars, exampleVars, senderB>>

\* senderB.Send(message), as in runSenders
CallSendB(message) ==
    /\ Len(sendLog) < MaxCalls
    /\ LET r == SenderB_Send(senderB, message)
       IN /\ senderB' = r.stored
          /\ sendLog' = Append(sendLog, r.out)
    /\ UNCHANGED <<mainPC, chanVars, stockVars, exampleVars, senderA>>

\* SendEmail(senderA, message): the interface value holds a copy of senderA
SendEmailA(message) ==
    /\ Len(sendLog) < MaxCalls
    /\ \E r \in {SenderA_Send(senderA, message), SenderA_Send_part000(senderA, message)} :
          /\ senderA' = r.stored
          /\ sendLog' = Append(sendLog, r.out)
    /\ UNCHANGED <<mainPC, chanVars, stockVars, exampleVars, senderB>>

\* SendEmail(&senderB, message): the interface value holds the pointer
SendEmailB(message) ==
    /\ Len(sendLog) < MaxCalls
    /\ LET r == SenderB_Send(senderB, message)
       IN /\ senderB' = r.stored
          /\ sendLog' = Append(sendLog, r.out)
    /\ UNCHANGED <<mainPC, chanVars, stockVars, exampleVars, senderA>>

NextSenders ==
    \/ \E m \in SendMessages : CallSendA(m)
    \/ \E m \in SendMessages : CallSendB(m)
    \/ \E m \in SendMessages : SendEmailA(m)
    \/ \E m \in SendMessages : SendEmailB(m)

\* any sequence of at most MaxCalls calls; mainPC and the channels of
\* go_3_goroutines.go play no part
SpecSenders == Init /\ [][NextSenders]_vars

(***************************************************************************)
(* part_000, lines 359-376: the map nameToAge, its two-value read, its     *)
(* write and its delete, applied in any order to keys and ages drawn from  *)
(* small sets that contain the program's own ("Bob", 34, 42, 33).          *)
(***************************************************************************)
MapKeys == {"Bob", "Alice", "Carol"}

MapAges == {0, 33, 34, 42}

\* a read that stores the zero value under a missing key, as a Python
\* defaultdict does
MapReadInserting(m, k) ==
    [value |-> IF k \in DOMAIN m THEN m[k] ELSE 0,
     keyExists |-> k \in DOMAIN m,
     map |-> IF k \in DOMAIN m THEN m
             ELSE [x \in DOMAIN m \cup {k} |-> IF x = k THEN 0 ELSE m[x]]]

\* line 365: bobAge, keyExists := nameToAge["Bob"]
\* (the value read, whether the key is there, the map after the read)
MapRead(m, k) ==
    [value |-> IF k \in DOMAIN m THEN m[k] ELSE 0,
     keyExists |-> k \in DOMAIN m,
     map |-> m]

\* line 373: nameToAge["Bob"] = 34
MapWrite(m, k, v) == [x \in DOMAIN m \cup {k} |-> IF x = k THEN v ELSE m[x]]

\* line 376: delete(nameToAge, "Bob"), which ignores a missing key
MapDelete(m, k) == [x \in DOMAIN m \ {k} |-> m[x]]

ReadFromMap(k) ==
    /\ LET r == MapRead(nameToAge, k)
       IN /\ lastRead' = [key |-> k, value |-> r.value, keyExists |-> r.keyExists,
                          read |-> TRUE]
          /\ nameToAge' = r.map
    /\ UNCHANGED <<mainPC, chanVars, stockVars, senderVars, cleanupVars>>

WriteToMap(k, v) ==
    /\ nameToAge' = MapWrite(nameToAge, k, v)
    /\ lastRead' = NoRead
    /\ UNCHANGED <<mainPC, chanVars, stockVars, senderVars, cleanupVars>>

DeleteFromMap(k) ==
    /\ nameToAge' = MapDelete(nameToAge, k)
    /\ lastRead' = NoRead
    /\ UNCHANGED <<mainPC, chanVars, stockVars, senderVars, cleanupVars>>

NextMap ==
    \/ \E k \in MapKeys : ReadFromMap(k)
    \/ \E k \in MapKeys, v \in MapAges : WriteToMap(k, v)
    \/ \E k \in MapKeys : DeleteFromMap(k)

SpecMap == Init /\ [][NextMap]_vars

(***************************************************************************)
(* main of part_001: the deferred calls, the database set-up that ends the *)
(* process with log.Fatal on an error, the function examples, and the      *)
(* value receiver updateNameAndCopy and pointer receiver updateMyName.     *)
(* Whether sql.Open and db.Conn return an error is decided outside the     *)
(* program: both outcomes are taken.                                       *)
(***************************************************************************)
FatalOpen == "Killing program, check the host/port/user string for syntax errors."

FatalConn == "Killing program, couldn't reach the db for a connection."

DeferredPrint == "I print after main returns and before whatever called main continues."

CleanupNames == {"alice", "jordan", "bob", "cindy"}

\* func (u user) updateNameAndCopy(newName string) user, written with a
\* pointer receiver: the variable it is called on changes at once
updateNameInPlaceAndCopy(receiver, newName) ==
    LET u == [receiver EXCEPT !.firstName = newName]
    IN [stored |-> u, result |-> u]

\* func (u user) updateNameAndCopy(newName string) user: u is a copy of the
\* variable the method is called on ("stored" is that variable afterwards)
updateNameAndCopy(receiver, newName) ==
    LET u == [receiver EXCEPT !.firstName = newName]
    IN [stored |-> receiver, result |-> u]

\* func (p *person) updateMyName(newName string): p points at the variable
updateMyName(receiver, newName) ==
    [stored |-> [receiver EXCEPT !.firstName = newName]]

\* lines 28-33: the two deferred prints
CleanupDefers ==
    /\ cleanupPC = "defers"
    /\ deferred' = <<DeferredPrint, DeferredPrint>>
    /\ cleanupPC' = "open"
    /\ UNCHANGED <<mainPC, chanVars, stockVars, senderVars, mapVars, cleanupOut, firstUser,
                   returnedUser, firstPerson, userName, personName>>

\* lines 37-43 with log.Print in place of log.Fatal: main goes on
CleanupSqlOpenLogOnly ==
    /\ cleanupPC = "open"
    /\ \E err \in BOOLEAN :
          cleanupOut' = IF err THEN Append(cleanupOut, FatalOpen) ELSE cleanupOut
    /\ cleanupPC' = "conn"
    /\ UNCHANGED <<mainPC, chanVars, stockVars, senderVars, mapVars, deferred, firstUser,
                   returnedUser, firstPerson, userName, personName>>

\* lines 37-43: sql.Open and its check; log.Fatal logs and ends the process
\* with os.Exit(1), so no deferred call runs
CleanupSqlOpen ==
    /\ cleanupPC = "open"
    /\ \E err \in BOOLEAN :
          IF err
             THEN /\ cleanupOut' = Append(cleanupOut, FatalOpen)
                  /\ cleanupPC' = "exited"
             ELSE /\ cleanupPC' = "conn"
                  /\ UNCHANGED cleanupOut
    /\ UNCHANGED <<mainPC, chanVars, stockVars, senderVars, mapVars, deferred, firstUser,
                   returnedUser, firstPerson, userName, personName>>

\* lines 44-47: db.Conn and its check
CleanupDbConn ==
    /\ cleanupPC = "conn"
    /\ \E err \in BOOLEAN :
          IF err
             THEN /\ cleanupOut' = Append(cleanupOut, FatalConn)
                  /\ cleanupPC' = "exited"
             ELSE /\ cleanupPC' = "deferClose"
                  /\ UNCHANGED cleanupOut
    /\ UNCHANGED <<mainPC, chanVars, stockVars, senderVars, mapVars, deferred, firstUser,
                   returnedUser, firstPerson, userName, personName>>

\* line 48: defer conn.Close()
CleanupDeferClose ==
    /\ cleanupPC = "deferClose"
    /\ deferred' = Append(deferred, "conn.Close")
    /\ cleanupPC' = "functions"
    /\ UNCHANGED <<mainPC, chanVars, stockVars, senderVars, mapVars, cleanupOut, firstUser,
                   returnedUser, firstPerson, userName, personName>>

\* lines 103-131 (sections 1 to 4): foo("bang") prints whizzBang, whizzBang
\* is extended, the function literal prints the new whizzBang
CleanupFunctions ==
    /\ cleanupPC = "functions"
    /\ cleanupOut' = cleanupOut \o <<"whizzbang!", "whizzbang! more stuff ">>
    /\ cleanupPC' = "user"
    /\ UNCHANGED <<mainPC, chanVars, stockVars, senderVars, mapVars, deferred, firstUser,
                   returnedUser, firstPerson, userName, personName>>

\* line 136, right-hand side: firstUser.updateNameAndCopy("alice")
CleanupCallUpdateNameAndCopy ==
    /\ cleanupPC = "user"
    /\ LET r == updateNameAndCopy(firstUser, userName)
       IN /\ firstUser' = r.stored
          /\ returnedUser' = r.result
    /\ cleanupPC' = "assignUser"
    /\ UNCHANGED <<mainPC, chanVars, stockVars, senderVars, mapVars, deferred, cleanupOut,
                   firstPerson, userName, personName>>

\* lines 136-137: the result is assigned to firstUser, its name is printed
CleanupAssignUser ==
    /\ cleanupPC = "assignUser"
    /\ firstUser' = returnedUser
    /\ cleanupOut' = Append(cleanupOut, firstUser'.firstName)
    /\ cleanupPC' = "person"
    /\ UNCHANGED <<mainPC, chanVars, stockVars, senderVars, mapVars, deferred,
                   returnedUser, firstPerson, userName, personName>>

\* lines 141-143: firstPerson.updateMyName("jordan"), its name is printed
CleanupCallUpdateMyName ==
    /\ cleanupPC = "person"
    /\ firstPerson' = updateMyName(firstPerson, personName).stored
    /\ cleanupOut' = Append(cleanupOut, firstPerson'.firstName)
    /\ cleanupPC' = "return"
    /\ UNCHANGED <<mainPC, chanVars, stockVars, senderVars, mapVars, deferred, firstUser,
                   returnedUser, userName, personName>>

\* the deferred calls in the order they run: the latest first
RECURSIVE RunDeferred(_)
RunDeferred(d) == IF d = <<>> THEN <<>>
                  ELSE <<d[Len(d)]>> \o RunDeferred(SubSeq(d, 1, Len(d) - 1))

\* line 144: main returns and its deferred calls run
CleanupReturn ==
    /\ cleanupPC = "return"
    /\ cleanupOut' = cleanupOut \o RunDeferred(deferred)
    /\ deferred' = <<>>
    /\ cleanupPC' = "returned"
    /\ UNCHANGED <<mainPC, chanVars, stockVars, senderVars, mapVars, firstUser,
                   returnedUser, firstPerson, userName, personName>>

NextCleanup ==
    \/ CleanupDefers
    \/ CleanupSqlOpen
    \/ CleanupDbConn
    \/ CleanupDeferClose
    \/ CleanupFunctions
    \/ CleanupCallUpdateNameAndCopy
    \/ CleanupAssignUser
    \/ CleanupCallUpdateMyName
    \/ CleanupReturn

\* main of part_001, run with any two names of CleanupNames
InitCleanupAnyNames ==
    /\ mainPC = "recvBool"
    /\ InitChan
    /\ InitStockVars
    /\ InitSenders
    /\ InitMap
    /\ \E u, p \in CleanupNames : InitCleanupWith(u, p)

SpecCleanup == InitCleanupAnyNames /\ [][NextCleanup]_vars

(***************************************************************************)
(* Properties.                                                             *)
(***************************************************************************)
RECURSIVE SumOf(_, _)
SumOf(f, S) == IF S = {} THEN 0
               ELSE LET x == CHOOSE y \in S : TRUE IN f[x] + SumOf(f, S \ {x})

IsPrefix(p, q) == Len(p) <= Len(q) /\ \A i \in 1..Len(p) : p[i] = q[i]

\* the position of a message in the list main ranges over (0 if absent)
MessagePos(m) == IF \E i \in 1..Len(Messages) : Messages[i] = m
                    THEN CHOOSE i \in 1..Len(Messages) : Messages[i] = m
                    ELSE 0

\* q lists messages of Messages, each once, in the order of Messages
InMessageOrder(q) ==
    /\ \A i \in 1..Len(q) : MessagePos(q[i]) > 0
    /\ \A i, j \in 1..Len(q) : i < j => MessagePos(q[i]) < MessagePos(q[j])

\* C1: when main returns, the deferred print shows the exit reason the
\* wait loop chose: the text printed equals exitMessage at the return.
DeferredPrintShowsExitReason ==
    mainPC = "returned" =>
        /\ deferOut = exitMessage
        /\ (tickReceived => deferOut = TimeoutMessage)
        /\ (~tickReceived => deferOut = AllWorkersMessage)

\* C2: no worker's emojiCount (nor the number of icons it printed) ever
\* exceeds the cap maxEmojis.
TallyWithinCap ==
    \A w \in Workers : emojiCount[w] <= MaxEmojis /\ iconsPrinted[w] <= MaxEmojis

\* C3: main's wait loop returns only after a value was received from the
\* ticker channel or after done messages of all 4 workers were received;
\* finishedWorkers counts the done messages taken off workerDoneChan.
ReturnOnlyOnTimeoutOrAllDone ==
    /\ finishedWorkers = SumOf(doneSent, Workers) - Len(workerDoneChan)
    /\ (mainPC = "returned" => (tickReceived \/ finishedWorkers = workers))
    /\ (mainPC = "returned" /\ finishedWorkers < workers => tickReceived)
    /\ (mainPC = "wait" => ~tickReceived /\ finishedWorkers < workers)

ReturnedOnAllDone ==
    mainPC = "returned" /\ ~tickReceived /\ finishedWorkers = workers

\* C4: a worker sends on workerDoneChan once, and only after it has left
\* its loop over stockTickerChan (it never reads again afterwards); at
\* most 4 done messages are ever sent.
WorkerDoneOnceState ==
    /\ \A w \in Workers :
          /\ doneSent[w] <= 1
          /\ (doneSent[w] = 1 <=> workerPC[w] = "exited")
          /\ (workerPC[w] \in {"send", "exited"} => CapReached(emojiCount[w], MaxEmojis))
    /\ SumOf(doneSent, Workers) <= workers

WorkerDoneOnceStep ==
    \A w \in Workers :
        /\ (doneSent'[w] # doneSent[w] => workerPC[w] = "send" /\ workerPC'[w] = "exited")
        /\ (workerPC[w] \in {"send", "exited"} =>
               /\ emojiCount'[w] = emojiCount[w]
               /\ workerPC'[w] \in {"send", "exited"})
        /\ (workerPC[w] = "exited" => workerPC'[w] = "exited" /\ doneSent'[w] = doneSent[w])

ReturnedOnTimeoutWithDonePending ==
    /\ mainPC = "returned"
    /\ tickReceived
    /\ CanRecv(workerDoneChan)
    /\ \E w \in Workers : workerPC[w] = "range"

\* C6: in the send loop main never blocks: an attempt enqueues the message,
\* or, exactly when messageChan already holds 3 messages, skips the send
\* and reports the message dropped; the loop is over after 8 attempts.
SendLoopState ==
    /\ (mainPC = "sendLoop" => ENABLED MainTrySend)
    /\ msgIdx = Len(enqueued) + Len(dropped)
    /\ (mainPC = "sendLoop" => msgIdx < Len(Messages))
    /\ (mainPC \notin {"recvBool", "sendLoop"} => msgIdx = Len(Messages))

SendLoopStep ==
    mainPC = "sendLoop" /\ msgIdx' # msgIdx =>
        /\ msgIdx' = msgIdx + 1
        /\ IF Len(messageChan) = MessageChanCap
              THEN /\ dropped' = Append(dropped, Messages[msgIdx'])
                   /\ messageChan' = messageChan
                   /\ enqueued' = enqueued
              ELSE /\ messageChan' = Append(messageChan, Messages[msgIdx'])
                   /\ enqueued' = Append(enqueued, Messages[msgIdx'])
                   /\ dropped' = dropped

ChannelsWithinCapacity ==
    /\ Len(stockTickerChan) <= StockChanCap
    /\ Len(workerDoneChan) <= workers
    /\ Len(messageChan) <= MessageChanCap
    /\ Len(boolChannel) <= BoolChanCap
    /\ Len(tickerChan) <= TickerChanCap

BlockedSpammerStep ==
    \A s \in Spammers :
        spammerPC[s] = "send" /\ Len(stockTickerChan) = StockChanCap =>
            /\ spammerPC'[s] = "send"
            /\ randomStock'[s] = randomStock[s]
            /\ \/ stockTickerChan' = stockTickerChan
               \/ /\ stockTickerChan' = Tail(stockTickerChan)
                  /\ \E w \in Workers : workerPC[w] = "range" /\ emojiCount'[w] >= emojiCount[w]

MessageChanFIFO ==
    /\ IsPrefix(printed, enqueued)
    /\ InMessageOrder(enqueued)
    /\ InMessageOrder(printed)
    /\ enqueued = printed \o messageChan

PrintedAfterDrop ==
    /\ Len(printed) >= 2
    /\ Len(dropped) >= 1
    /\ Len(messageChan) >= 2
    /\ Len(enqueued) > Len(printed)

\* C9: whatever calls were made, senderA.MessageCount is still 0 and
\* senderA.FirstName is still "A", and every Send on senderA saw count 1.
SenderAUnchanged ==
    /\ senderA.MessageCount = 0
    /\ senderA.FirstName = "A"
    /\ \A i \in 1..Len(sendLog) :
          sendLog[i].sender = "A" => sendLog[i].count = 1 /\ sendLog[i].name = "A"

SenderACalledRepeatedly ==
    Cardinality({i \in 1..Len(sendLog) : sendLog[i].sender = "A"}) >= 3

\* C10: after n calls of Send on senderB, senderB.MessageCount is n, and
\* the k-th of them printed the count k.
SenderBCounts ==
    /\ senderB.MessageCount = Cardinality({i \in 1..Len(sendLog) : sendLog[i].sender = "B"})
    /\ senderB.FirstName = "B"
    /\ \A i \in 1..Len(sendLog) :
          sendLog[i].sender = "B" =>
              sendLog[i].count = Cardinality({j \in 1..i : sendLog[j].sender = "B"})

SenderBCalledFourTimes ==
    /\ Cardinality({i \in 1..Len(sendLog) : sendLog[i].sender = "B"}) = 4
    /\ senderB.MessageCount = 4

\* C12: the deferred ticker.Stop() has run exactly once when main has
\* returned, by the timeout case as by the all-workers-done case, and has
\* not run (the ticker is still running) while main is in its wait loop.
TickerStoppedOnceAtReturn ==
    /\ tickerStops = (IF mainPC = "returned" THEN 1 ELSE 0)
    /\ (mainPC = "wait" => tickerRunning)
    /\ (mainPC = "returned" => ~tickerRunning)

StoppedAfterAllWorkersDone ==
    /\ mainPC = "returned"
    /\ exitMessage = AllWorkersMessage
    /\ tickerStops = 1
    /\ CanRecv(tickerChan)

\* C15: a worker's send on workerDoneChan never blocks: whenever a worker
\* is at its send the channel has room, also when all four workers finish
\* before main has received anything.
DoneSendNeverBlocks ==
    /\ \A w \in Workers :
          workerPC[w] = "send" /\ Running =>
              /\ CanSend(workerDoneChan, DoneChanCap)
              /\ ENABLED WorkerSendDone(w)
    /\ Len(workerDoneChan) + Cardinality({w \in Workers : workerPC[w] # "exited"}) <= workers

AllDoneBeforeMainReceives ==
    /\ mainPC = "wait"
    /\ finishedWorkers = 0
    /\ \A w \in Workers : workerPC[w] = "exited"
    /\ Len(workerDoneChan) = workers

SymbolSet == {stockSymbols[i] : i \in 1..Len(stockSymbols)}

\* C17: every symbol on stockTickerChan is one of the four stock symbols;
\* any worker in its loop may be the one that receives the head; a receive
\* takes the head off for good and changes one worker only, which counts
\* and prints an icon exactly when the symbol is its ticker.  Icons are
\* printed by receives only, at most one per symbol removed, so their
\* total never exceeds the number of symbols removed.
SymbolsState ==
    /\ \A i \in 1..Len(stockTickerChan) : stockTickerChan[i] \in SymbolSet
    /\ \A s \in Spammers : spammerPC[s] = "send" => randomStock[s] \in SymbolSet
    /\ \A w \in Workers : iconsPrinted[w] = emojiCount[w]
    /\ \A w \in Workers :
          workerPC[w] = "range" /\ CanRecv(stockTickerChan) /\ Running => ENABLED WorkerRecv(w)

SymbolReceiveStep ==
    IF Len(stockTickerChan') < Len(stockTickerChan)
       THEN /\ stockTickerChan' = Tail(stockTickerChan)
            /\ \E w \in Workers :
                  /\ workerPC[w] = "range"
                  /\ \A v \in Workers \ {w} :
                        /\ emojiCount'[v] = emojiCount[v]
                        /\ iconsPrinted'[v] = iconsPrinted[v]
                        /\ workerPC'[v] = workerPC[v]
                  /\ IF Head(stockTickerChan) = WorkerTicker[w]
                        THEN /\ emojiCount'[w] = emojiCount[w] + 1
                             /\ iconsPrinted'[w] = iconsPrinted[w] + 1
                        ELSE /\ emojiCount'[w] = emojiCount[w]
                             /\ iconsPrinted'[w] = iconsPrinted[w]
                             /\ workerPC'[w] = workerPC[w]
            /\ SumOf(iconsPrinted', Workers) <= SumOf(iconsPrinted, Workers) + 1
       ELSE /\ iconsPrinted' = iconsPrinted
            /\ emojiCount' = emojiCount

SymbolsReceivedOnce == []SymbolsState /\ [][SymbolReceiveStep]_vars

CountingWorkerFacesOtherSymbol ==
    /\ mainPC = "wait"
    /\ CanRecv(stockTickerChan)
    /\ \E w \in Workers :
          /\ workerPC[w] = "range"
          /\ iconsPrinted[w] > 0
          /\ Head(stockTickerChan) # WorkerTicker[w]
    /\ \E v \in Workers : workerPC[v] = "exited"

\* the number of times m occurs in the sequence q
Occurrences(q, m) == Cardinality({i \in 1..Len(q) : q[i] = m})

PrinterNotifiedToStop == (mainPC = "setup") ~> (printerPC = "finished")

\* C13: a two-value read of nameToAge never fails: it can be made of any
\* key in any state, and, as long as the map is not written to afterwards,
\* what it returned is the stored value with keyExists true for a key in
\* the map, and 0 with keyExists false for a key not in it (the read itself
\* has not put the key there).
MapReadTotal ==
    /\ \A k \in MapKeys : ENABLED ReadFromMap(k)
    /\ lastRead.read =>
          IF lastRead.key \in DOMAIN nameToAge
             THEN lastRead.keyExists /\ lastRead.value = nameToAge[lastRead.key]
             ELSE ~lastRead.keyExists /\ lastRead.value = 0

MapReadStep ==
    lastRead'.read /\ lastRead' # lastRead => nameToAge' = nameToAge

MapReadSafe == []MapReadTotal /\ [][MapReadStep]_vars

MissAfterDelete ==
    /\ lastRead.read
    /\ lastRead.key = "Bob"
    /\ ~lastRead.keyExists
    /\ lastRead.value = 0
    /\ DOMAIN nameToAge = {"Alice"}


\* the lines main of part_001 logs with log.Fatal
FatalLines == {FatalOpen, FatalConn}

\* a state in which sql.Open or db.Conn has returned an error
SetupFailed == \E i \in 1..Len(cleanupOut) : cleanupOut[i] \in FatalLines

\* C11, in each state: once sql.Open or db.Conn has returned an error the
\* process has ended with the fatal line as its only and last output;
\* conn.Close is not among the deferred calls, the two deferred prints have
\* not run, and nothing of sections 1 to 6 has happened (no section output,
\* firstUser and firstPerson untouched).  The process ends this way only.
SetupFailureState ==
    /\ SetupFailed =>
          /\ cleanupPC = "exited"
          /\ Len(cleanupOut) = 1
          /\ deferred = <<DeferredPrint, DeferredPrint>>
          /\ firstUser.firstName = ""
          /\ returnedUser.firstName = ""
          /\ firstPerson.firstName = ""
    /\ cleanupPC = "exited" => SetupFailed

\* C11, in each step: after the process has ended no statement runs
SetupFailureStep ==
    cleanupPC = "exited" => UNCHANGED cleanupVars

\* C11: when sql.Open or db.Conn returns an error the program logs and
\* terminates the process at that point: no statement after the failing
\* check runs, conn.Close is never scheduled, sections 1 to 6 do not run.
SetupFailureTerminates == []SetupFailureState /\ [][SetupFailureStep]_vars

\* C11 witness: sql.Open succeeded, db.Conn returned an error and the
\* process has ended
ExitedAtConnCheck ==
    /\ cleanupPC = "exited"
    /\ cleanupOut = <<FatalConn>>

\* C14, in each state: between the call of updateNameAndCopy and the
\* assignment the result carries the new name while firstUser is as before;
\* from the assignment on firstUser carries it; from the call of
\* updateMyName on firstPerson carries its new name.
ReceiverState ==
    /\ cleanupPC = "assignUser" =>
          /\ returnedUser.firstName = userName
          /\ firstUser.firstName = ""
    /\ cleanupPC \in {"person", "return", "returned"} =>
          firstUser.firstName = userName
    /\ cleanupPC \in {"defers", "open", "conn", "deferClose", "functions", "user",
                       "assignUser", "person"} =>
          firstPerson.firstName = ""
    /\ cleanupPC \in {"return", "returned"} =>
          firstPerson.firstName = personName
    /\ (cleanupPC = "returned" /\ userName = "alice" /\ personName = "jordan") =>
          /\ firstUser.firstName = "alice"
          /\ firstPerson.firstName = "jordan"

\* C14, in each step: the call of updateNameAndCopy leaves firstUser as it
\* was, the call of updateMyName changes firstPerson itself
ReceiverStep ==
    /\ (cleanupPC = "user" /\ cleanupPC' = "assignUser") =>
          /\ firstUser' = firstUser
          /\ returnedUser'.firstName = userName
    /\ (cleanupPC = "person" /\ cleanupPC' = "return") =>
          firstPerson'.firstName = personName

\* C14: updateNameAndCopy(n) returns a user named n and leaves the variable
\* it was called on unchanged until the result is assigned back;
\* updateMyName(n) changes the variable it was called on in place; after
\* the calls shown firstUser is "alice" and firstPerson is "jordan".
ReceiverSemantics == []ReceiverState /\ [][ReceiverStep]_vars

\* C14 witness: main has returned after both calls, run with the names the
\* program uses
ReturnedWithBothNames ==
    /\ cleanupPC = "returned"
    /\ userName = "alice"
    /\ personName = "jordan"
    /\ firstUser.firstName = "alice"
    /\ firstPerson.firstName = "jordan"

====
